---- MODULE Spec2Model ----
(***************************************************************************)
(* Siege6 MCP: the pluggable audio backends (Null, OpenAL, Windows         *)
(* Spatial, and a plugin subclass that inherits the base-class             *)
(* availability probe) and the AudioBackendManager that registers them and *)
(* switches the active one.                                                *)
(*                                                                         *)
(* Backend instances live in a heap `objs` (index = object identity); the  *)
(* manager's table `backends` and its `active_backend` hold identities.    *)
(* Calls into the audio libraries are environment choices: every call that *)
(* can return a falsy handle or raise does so nondeterministically.        *)
(* Return values are the strings "True" and "False"; a call that an        *)
(* exception left is recorded as "raised".                                 *)
(***************************************************************************)
EXTENDS Integers, Sequences, FiniteSets, TLC

\* Bound on the number of backend instances ever constructed in a run of
\* the manager (Spec, SpecConcurrent, SpecRoundTrip, SpecFaulty).
MaxObjects == 3

\* Bound on the number of backend instances in a run of direct calls on
\* backend instances (SpecBackend, SpecRegistry).
MaxInstances == 2

VARIABLES
    host,            \* what the machine offers: the libraries and the platform
    objs,            \* the heap of backend instances
    backends,        \* AudioBackendManager.backends, in insertion order
    active_backend,  \* AudioBackendManager.active_backend (an identity)
    last,            \* the last call made and what it returned
    switcher,        \* a set_active_backend call under way on one thread
    reader,          \* a caller of get_active_backend on another thread
    trip,            \* the notes of a caller who switches away and back
    frame            \* the locals of a _calculate_spatial_parameters call

vars ==
    <<host, objs, backends, active_backend, last, switcher, reader, trip,
      frame>>

\* The state of the callers: the two threads, the notes and the running
\* computation
callers == <<switcher, reader, trip, frame>>

\* class AudioBackendType(Enum)
AudioBackendType == {"openal", "windows_spatial", "none"}

\* The classes of backend instances: the three of the repository, a plugin
\* subclass of AudioBackend that keeps the inherited is_available(), and a
\* plugin whose initialize() and shutdown() can raise.
Classes == {"Null", "OpenAL", "WindowsSpatial", "Plugin", "FaultyPlugin"}

------------------------------------------------------------------------------
\* Construction

\* AudioBackend.__init__: not initialized; the placeholder fields of the
\* subclasses are carried by every instance so that the heap is uniform.
AudioBackend(c, t) ==
    [cls |-> c, backend_type |-> t, initialized |-> FALSE,
     al_device |-> "None", al_context |-> "None", openal_available |-> FALSE,
     is_windows |-> FALSE, winsound_available |-> FALSE,
     spatial_renderer |-> "None"]

\* NullAudioBackend.__init__
NullAudioBackend == AudioBackend("Null", "none")

\* OpenALBackend.__init__: the import of the openal library decides
\* openal_available.
OpenALBackend(h) ==
    [AudioBackend("OpenAL", "openal") EXCEPT !.openal_available = h.openal]

\* WindowsSpatialBackend.__init__: platform.system() and the import of ctypes.
WindowsSpatialBackend(h) ==
    [AudioBackend("WindowsSpatial", "windows_spatial") EXCEPT
        !.is_windows = h.windows,
        !.winsound_available = h.windows /\ h.ctypes]

\* A new instance of class c; a plugin declares its own variant t.
Construct(c, t, h) ==
    CASE c = "Null" -> NullAudioBackend
      [] c = "OpenAL" -> OpenALBackend(h)
      [] c = "WindowsSpatial" -> WindowsSpatialBackend(h)
      [] c = "Plugin" -> AudioBackend("Plugin", t)
      [] OTHER -> AudioBackend("FaultyPlugin", t)

------------------------------------------------------------------------------
\* initialize()

\* What the environment can answer to one initialize() call on b.
InitOutcomes(b) ==
    CASE b.cls = "Null" -> {"ok"}
      [] b.cls = "OpenAL" ->
            IF ~b.openal_available THEN {"unavailable"}
            ELSE {"ok", "no_device", "no_context", "device_raises", "setup_raises"}
      [] b.cls = "WindowsSpatial" ->
            IF ~b.is_windows \/ ~b.winsound_available THEN {"unavailable"}
            ELSE {"ok", "raises_early", "raises_late"}
      [] b.cls = "Plugin" -> {"ok", "fail"}
      [] OTHER -> {"ok", "raises"}

\* NullAudioBackend.initialize with a mistake: it returns True without
\* setting the flag
NullInitializeForgetsFlag(b) == [obj |-> b, ret |-> "True"]

\* NullAudioBackend.initialize
NullInitialize(b) == [obj |-> [b EXCEPT !.initialized = TRUE], ret |-> "True"]

\* OpenALBackend.initialize
OpenALInitialize(b, io) ==
    CASE io = "unavailable" -> [obj |-> b, ret |-> "False"]
      [] io = "no_device" ->
            \* oalOpen returned a falsy handle: early return, flag untouched
            [obj |-> [b EXCEPT !.al_device = "None"], ret |-> "False"]
      [] io = "device_raises" ->
            [obj |-> [b EXCEPT !.initialized = FALSE], ret |-> "False"]
      [] io = "no_context" ->
            \* the device is closed again but the handle is kept
            [obj |-> [b EXCEPT !.al_device = "closed", !.al_context = "None"],
             ret |-> "False"]
      [] io = "setup_raises" ->
            \* oalMakeCurrent or alDistanceModel raised
            [obj |-> [b EXCEPT !.al_device = "open", !.al_context = "live",
                               !.initialized = FALSE],
             ret |-> "False"]
      [] OTHER ->
            [obj |-> [b EXCEPT !.al_device = "open", !.al_context = "live",
                               !.initialized = TRUE],
             ret |-> "True"]

\* WindowsSpatialBackend.initialize
WindowsSpatialInitialize(b, io) ==
    CASE io = "unavailable" -> [obj |-> b, ret |-> "False"]
      [] io = "raises_early" ->
            [obj |-> [b EXCEPT !.initialized = FALSE], ret |-> "False"]
      [] io = "raises_late" ->
            [obj |-> [b EXCEPT !.spatial_renderer = "Windows Sonic",
                               !.initialized = FALSE],
             ret |-> "False"]
      [] OTHER ->
            [obj |-> [b EXCEPT !.spatial_renderer = "Windows Sonic",
                               !.initialized = TRUE],
             ret |-> "True"]

\* initialize() of a plugin that does what the abstract method asks: True
\* on success, and on failure False with the instance left not initialized
\* (as WindowsSpatialBackend.initialize does in its except branch).
PluginInitialize(b, io) ==
    IF io = "ok"
    THEN [obj |-> [b EXCEPT !.initialized = TRUE], ret |-> "True"]
    ELSE [obj |-> [b EXCEPT !.initialized = FALSE], ret |-> "False"]

\* initialize() of a plugin that lets the exception of its library out
\* instead of returning False; the flag is as it was
FaultyPluginInitialize(b, io) ==
    IF io = "ok"
    THEN [obj |-> [b EXCEPT !.initialized = TRUE], ret |-> "True"]
    ELSE [obj |-> b, ret |-> "raised"]

\* b.initialize(), dispatched on the class
Initialize(b, io) ==
    CASE b.cls = "Null" -> NullInitialize(b)
      [] b.cls = "OpenAL" -> OpenALInitialize(b, io)
      [] b.cls = "WindowsSpatial" -> WindowsSpatialInitialize(b, io)
      [] b.cls = "Plugin" -> PluginInitialize(b, io)
      [] OTHER -> FaultyPluginInitialize(b, io)

------------------------------------------------------------------------------
\* shutdown()

\* What the environment can answer to one shutdown() call on b.
ShutdownOutcomes(b) ==
    IF b.cls = "FaultyPlugin" THEN {"ok", "raises"}
    ELSE IF b.cls # "OpenAL" THEN {"ok"}
    ELSE IF ~b.openal_available THEN {"unavailable"}
    ELSE {"ok"}
         \cup (IF b.al_context # "None" THEN {"destroy_raises"} ELSE {})
         \cup (IF b.al_device # "None" THEN {"close_raises"} ELSE {})

\* NullAudioBackend.shutdown
NullShutdown(b) == [b EXCEPT !.initialized = FALSE]

\* OpenALBackend.shutdown: an exception while releasing the context or the
\* device is caught, and the statements after it are skipped.
OpenALShutdown(b, so) ==
    CASE so = "unavailable" -> b
      [] so = "destroy_raises" -> b
      [] so = "close_raises" -> [b EXCEPT !.al_context = "None"]
      [] OTHER -> [b EXCEPT !.al_context = "None", !.al_device = "None",
                            !.initialized = FALSE]

\* WindowsSpatialBackend.shutdown
WindowsSpatialShutdown(b) ==
    [b EXCEPT !.spatial_renderer = "None", !.initialized = FALSE]

\* shutdown() of a plugin: back to not initialized
PluginShutdown(b) == [b EXCEPT !.initialized = FALSE]

\* shutdown() of a plugin that lets the exception of its library out; the
\* flag is as it was
FaultyPluginShutdown(b, so) ==
    IF so = "ok" THEN [b EXCEPT !.initialized = FALSE] ELSE b

\* b.shutdown(), dispatched on the class: the instance it leaves
Shutdown(b, so) ==
    CASE b.cls = "Null" -> NullShutdown(b)
      [] b.cls = "OpenAL" -> OpenALShutdown(b, so)
      [] b.cls = "WindowsSpatial" -> WindowsSpatialShutdown(b)
      [] b.cls = "Plugin" -> PluginShutdown(b)
      [] OTHER -> FaultyPluginShutdown(b, so)

\* How b.shutdown() ends: the classes of the repository catch what their
\* libraries raise, or call nothing that raises
ShutdownRet(b, so) ==
    IF b.cls = "FaultyPlugin" /\ so = "raises" THEN "raised" ELSE "returned"

------------------------------------------------------------------------------
\* is_available()

\* AudioBackend.is_available, inherited by NullAudioBackend and by plugins:
\* it calls initialize() and turns an exception into False.
BaseIsAvailable(b, io) ==
    LET r == Initialize(b, io)
    IN  [obj |-> r.obj, ret |-> IF r.ret = "True" THEN "True" ELSE "False"]

\* OpenALBackend.is_available
OpenALIsAvailable(b) ==
    [obj |-> b, ret |-> IF b.openal_available THEN "True" ELSE "False"]

\* WindowsSpatialBackend.is_available
WindowsSpatialIsAvailable(b) ==
    [obj |-> b,
     ret |-> IF b.is_windows /\ b.winsound_available THEN "True" ELSE "False"]

\* b.is_available(), dispatched on the class
IsAvailable(b, io) ==
    CASE b.cls = "OpenAL" -> OpenALIsAvailable(b)
      [] b.cls = "WindowsSpatial" -> WindowsSpatialIsAvailable(b)
      [] OTHER -> BaseIsAvailable(b, io)

\* The environment's answers to one is_available() call: those of the
\* initialize() it makes, or none where the probe is overridden.
ProbeOutcomes(b) ==
    IF b.cls \in {"OpenAL", "WindowsSpatial"} THEN {"pure"} ELSE InitOutcomes(b)

------------------------------------------------------------------------------
\* The record of the last call

\* Python's None
None == [kind |-> "None"]

\* What a call leaves for the caller to see: the operation, the instance or
\* variant it was about, its return value ("raised" when an exception left
\* it), the active backend and the number of instances when it began, the
\* backend methods it invoked in order, its input and its result value.
Returned(name, o, t, r, lg, in, res) ==
    [op |-> name, target |-> o, variant |-> t, ret |-> r,
     prev |-> active_backend, nobjs |-> Len(objs), log |-> lg,
     input |-> in, result |-> res]

\* One backend method invoked on instance o, and what it returned
Call(name, o, r) == [call |-> name, obj |-> o, ret |-> r]

------------------------------------------------------------------------------
\* get_capabilities() and get_backend_info()

\* NullAudioBackend.get_capabilities
NullCapabilities ==
    [spatial_positioning |-> FALSE, hrtf_processing |-> FALSE, reverb |-> FALSE,
     occlusion |-> FALSE, real_time_processing |-> FALSE]

\* OpenALBackend.get_capabilities
OpenALCapabilities ==
    [spatial_positioning |-> TRUE, hrtf_processing |-> TRUE, reverb |-> TRUE,
     occlusion |-> TRUE, real_time_processing |-> TRUE,
     distance_attenuation |-> TRUE, doppler_effect |-> TRUE,
     directional_sources |-> TRUE]

\* WindowsSpatialBackend.get_capabilities (_check_dolby_atmos_available is
\* the constant False)
WindowsSpatialCapabilities ==
    [spatial_positioning |-> TRUE, hrtf_processing |-> TRUE, reverb |-> TRUE,
     occlusion |-> TRUE, real_time_processing |-> TRUE,
     distance_attenuation |-> TRUE, elevation_support |-> TRUE,
     dolby_atmos |-> FALSE, windows_sonic |-> TRUE]

\* b.get_capabilities(); a plugin declares what it likes, here one feature
get_capabilities(b) ==
    CASE b.cls = "Null" -> NullCapabilities
      [] b.cls = "OpenAL" -> OpenALCapabilities
      [] b.cls = "WindowsSpatial" -> WindowsSpatialCapabilities
      [] OTHER -> [spatial_positioning |-> TRUE]

\* The environment's answers to one get_backend_info() call: the alGetString
\* queries of a ready OpenAL backend may raise.
InfoOutcomes(b) ==
    IF b.cls = "OpenAL" /\ b.initialized /\ b.openal_available
    THEN {"ok", "query_raises"}
    ELSE {"ok"}

\* b.get_backend_info(): the identity fields, and the set of live diagnostic
\* fields that were added to them
get_backend_info(b, q) ==
    CASE b.cls = "Null" ->
            [name |-> "Null Audio Backend", type |-> "none",
             version |-> "1.0.0", description |-> "fallback", diagnostics |-> {}]
      [] b.cls = "OpenAL" ->
            [name |-> "OpenAL Audio Backend", type |-> "openal",
             version |-> "1.0.0", description |-> "openal",
             diagnostics |->
                IF b.initialized /\ b.openal_available /\ q = "ok"
                THEN {"openal_vendor", "openal_renderer", "openal_version"}
                ELSE {}]
      [] b.cls = "WindowsSpatial" ->
            [name |-> "Windows Spatial Sound Backend", type |-> "windows_spatial",
             version |-> "1.0.0", description |-> "windows",
             diagnostics |->
                IF b.initialized /\ b.spatial_renderer # "None"
                THEN {"spatial_format", "max_audio_objects", "sample_rate"}
                ELSE {}]
      [] OTHER ->
            [name |-> "Plugin Backend", type |-> b.backend_type,
             version |-> "1.0.0", description |-> "plugin", diagnostics |-> {}]

------------------------------------------------------------------------------
\* process_spatial_audio()
\*
\* Lengths are whole metres, volumes tenths of a decibel, the falloff and
\* the occlusion factor tenths.

\* SpatialPosition
SpatialPosition(px, py, pz) == [x |-> px, y |-> py, z |-> pz]

\* The source positions and listener positions of the runs: every distance
\* between a source and a listener is a whole number.
SourcePositions ==
    {None, SpatialPosition(0, 0, 0), SpatialPosition(10, 0, 0),
     SpatialPosition(3, 0, 4)}
ListenerPositions == {SpatialPosition(0, 0, 0)}

\* AudioMetadata: the profiles of the runs. volume_is_number = FALSE is a
\* malformed profile, whose volume_db is not a number (a string from the
\* data table): arithmetic on it raises TypeError.
Profiles ==
    [volume_db : {-18}, volume_is_number : BOOLEAN, spatial_falloff : {25},
     occlusion_factor : {7}, position : SourcePositions]

\* (dx**2 + dy**2 + dz**2) ** 0.5 on the squares of whole numbers
Sqrt(n) == CHOOSE r \in 0..n : r * r = n

\* The distance from the listener to the source, 0 without a source position
Distance(md, lp) ==
    IF md.position = None THEN 0
    ELSE LET dx == md.position.x - lp.x
             dy == md.position.y - lp.y
             dz == md.position.z - lp.z
         IN  Sqrt(dx * dx + dy * dy + dz * dz)

\* The direction with a mistake: no test for distance > 0, so a source at
\* the listener's position is divided by 0
DirectionDividesByZero(md, lp) ==
    IF md.position = None
    THEN [num |-> <<0, 0, 0>>, den |-> 1]
    ELSE [num |-> <<md.position.x - lp.x, md.position.y - lp.y,
                    md.position.z - lp.z>>,
          den |-> Distance(md, lp)]

\* The unit direction (dx/d, dy/d, dz/d), kept as numerator and divisor
Direction(md, lp) ==
    IF md.position = None \/ Distance(md, lp) = 0
    THEN [num |-> <<0, 0, 0>>, den |-> 1]
    ELSE [num |-> <<md.position.x - lp.x, md.position.y - lp.y,
                    md.position.z - lp.z>>,
          den |-> Distance(md, lp)]

\* The occlusion penalty constants of the two backends
OpenALOcclusionPenalty == 10
WindowsSpatialOcclusionPenalty == 12
\* The distance beyond which the penalty applies
OcclusionDistance == 5

\* The attenuation with a mistake: the penalty is taken off from the
\* occlusion distance on (distance >= 5.0), not beyond it
AttenuateFromThreshold(md, d, K) ==
    md.volume_db * 10 - d * md.spatial_falloff
        - (IF d >= OcclusionDistance THEN (10 - md.occlusion_factor) * K ELSE 0)

\* The attenuation with a mistake: the penalty is added, not taken off
AttenuateAddsPenalty(md, d, K) ==
    md.volume_db * 10 - d * md.spatial_falloff
        + (IF d > OcclusionDistance THEN (10 - md.occlusion_factor) * K ELSE 0)

\* volume_db - distance * spatial_falloff, less (1 - occlusion_factor) * K
\* beyond the occlusion distance, in tenths of a decibel
Attenuate(md, d, K) ==
    md.volume_db * 10 - d * md.spatial_falloff
        - (IF d > OcclusionDistance THEN (10 - md.occlusion_factor) * K ELSE 0)

\* The keys of the processed_audio dict of NullAudioBackend
NullResultKeys ==
    {"metadata", "distance", "attenuated_volume_db", "listener_position", "note"}

\* The keys _calculate_spatial_parameters of both backends returns
SpatialResultKeys ==
    {"metadata", "listener_position", "listener_orientation", "distance",
     "direction", "attenuated_volume_db", "reverb_amount", "frequency_range"}

\* The keys of the processed_audio dict of OpenALBackend
OpenALResultKeys ==
    SpatialResultKeys
        \cup {"relative_angle_degrees", "pan", "doppler_shift",
              "openal_parameters", "processing_applied"}

\* The keys of the processed_audio dict of WindowsSpatialBackend
WindowsSpatialResultKeys ==
    SpatialResultKeys
        \cup {"azimuth", "elevation", "windows_spatial_parameters",
              "processing_applied", "hrtf_enabled", "spatial_format"}

\* AudioProcessingResult(success, message, processed_audio, backend_info)
AudioProcessingResult(s, m, pa, bi) ==
    [success |-> s, message |-> m, processed_audio |-> pa, backend_info |-> bi]

\* A call that returned res, and one that an exception left
Return(res) == [ret |-> "returned", result |-> res]
Raise == [ret |-> "raised", result |-> None]

\* NullAudioBackend.process_spatial_audio with a mistake: the occlusion
\* penalty of OpenALBackend is taken off beyond the occlusion distance
NullProcessWithOcclusion(b, md, lp, q) ==
    IF md.position # None /\ ~md.volume_is_number THEN Raise
    ELSE Return(AudioProcessingResult(TRUE, "analyzed",
            [distance |-> Distance(md, lp),
             attenuated_volume_db |->
                IF md.position # None
                THEN Attenuate(md, Distance(md, lp), OpenALOcclusionPenalty)
                ELSE md.volume_db * 10,
             block |-> "none",
             keys |-> NullResultKeys],
            get_backend_info(b, q)))

\* NullAudioBackend.process_spatial_audio with a mistake: the result has
\* the pan of a spatial backend
NullProcessWithPan(b, md, lp, q) ==
    IF md.position # None /\ ~md.volume_is_number THEN Raise
    ELSE Return(AudioProcessingResult(TRUE, "analyzed",
            [distance |-> Distance(md, lp),
             attenuated_volume_db |->
                IF md.position # None
                THEN md.volume_db * 10 - Distance(md, lp) * md.spatial_falloff
                ELSE md.volume_db * 10,
             block |-> "none",
             keys |-> NullResultKeys \cup {"pan"}],
            get_backend_info(b, q)))

\* NullAudioBackend.process_spatial_audio: no readiness check and no
\* try/except; the arithmetic is done only when there is a source position.
NullProcess(b, md, lp, q) ==
    IF md.position # None /\ ~md.volume_is_number THEN Raise
    ELSE Return(AudioProcessingResult(TRUE, "analyzed",
            [distance |-> Distance(md, lp),
             attenuated_volume_db |->
                IF md.position # None
                THEN md.volume_db * 10 - Distance(md, lp) * md.spatial_falloff
                ELSE md.volume_db * 10,
             block |-> "none",
             keys |-> NullResultKeys],
            get_backend_info(b, q)))

\* OpenALBackend.process_spatial_audio with a mistake: the result of a
\* caught exception carries the parameters computed so far
OpenALProcessKeepsPartial(b, md, lp, q) ==
    IF ~b.initialized
    THEN Return(AudioProcessingResult(FALSE, "not initialized", None,
                                      get_backend_info(b, q)))
    ELSE IF ~md.volume_is_number
    THEN Return(AudioProcessingResult(FALSE, "processing error",
            [distance |-> Distance(md, lp), block |-> "openal_parameters"],
            get_backend_info(b, q)))
    ELSE Return(AudioProcessingResult(TRUE, "processed",
            [distance |-> Distance(md, lp),
             direction |-> Direction(md, lp),
             attenuated_volume_db |->
                Attenuate(md, Distance(md, lp), OpenALOcclusionPenalty),
             block |-> "openal_parameters",
             keys |-> OpenALResultKeys],
            get_backend_info(b, q)))

\* OpenALBackend.process_spatial_audio
OpenALProcess(b, md, lp, q) ==
    IF ~b.initialized
    THEN Return(AudioProcessingResult(FALSE, "not initialized", None,
                                      get_backend_info(b, q)))
    ELSE IF ~md.volume_is_number
    THEN Return(AudioProcessingResult(FALSE, "processing error", None,
                                      get_backend_info(b, q)))
    ELSE Return(AudioProcessingResult(TRUE, "processed",
            [distance |-> Distance(md, lp),
             direction |-> Direction(md, lp),
             attenuated_volume_db |->
                Attenuate(md, Distance(md, lp), OpenALOcclusionPenalty),
             block |-> "openal_parameters",
             keys |-> OpenALResultKeys],
            get_backend_info(b, q)))

\* WindowsSpatialBackend.process_spatial_audio: reading the renderer's type
\* of a backend without a renderer raises inside the try
WindowsSpatialProcess(b, md, lp, q) ==
    IF ~b.initialized
    THEN Return(AudioProcessingResult(FALSE, "not initialized", None,
                                      get_backend_info(b, q)))
    ELSE IF ~md.volume_is_number \/ b.spatial_renderer = "None"
    THEN Return(AudioProcessingResult(FALSE, "processing error", None,
                                      get_backend_info(b, q)))
    ELSE Return(AudioProcessingResult(TRUE, "processed",
            [distance |-> Distance(md, lp),
             direction |-> Direction(md, lp),
             attenuated_volume_db |->
                Attenuate(md, Distance(md, lp), WindowsSpatialOcclusionPenalty),
             block |-> "windows_spatial_parameters",
             keys |-> WindowsSpatialResultKeys],
            get_backend_info(b, q)))

\* process_spatial_audio() of a plugin, as the abstract method describes it
PluginProcess(b, md, lp, q) ==
    IF ~b.initialized \/ ~md.volume_is_number
    THEN Return(AudioProcessingResult(FALSE, "failed", None,
                                      get_backend_info(b, q)))
    ELSE Return(AudioProcessingResult(TRUE, "processed",
            [distance |-> Distance(md, lp),
             attenuated_volume_db |->
                md.volume_db * 10 - Distance(md, lp) * md.spatial_falloff,
             block |-> "plugin",
             keys |-> {"distance", "attenuated_volume_db"}],
            get_backend_info(b, q)))

\* b.process_spatial_audio(md, lp, orientation), dispatched on the class
process_spatial_audio(b, md, lp, q) ==
    CASE b.cls = "Null" -> NullProcess(b, md, lp, q)
      [] b.cls = "OpenAL" -> OpenALProcess(b, md, lp, q)
      [] b.cls = "WindowsSpatial" -> WindowsSpatialProcess(b, md, lp, q)
      [] OTHER -> PluginProcess(b, md, lp, q)

------------------------------------------------------------------------------
\* AudioBackendManager

\* The hosts of the runs: a Windows machine with the openal library, the
\* same without a usable ctypes, and another platform without the library
Hosts ==
    {[openal |-> TRUE, windows |-> TRUE, ctypes |-> TRUE],
     [openal |-> TRUE, windows |-> TRUE, ctypes |-> FALSE],
     [openal |-> FALSE, windows |-> FALSE, ctypes |-> TRUE]}

\* AudioBackendManager.__init__ (and the host the process runs on)
Init ==
    /\ host \in Hosts
    /\ objs = <<NullInitialize(NullAudioBackend).obj>>
    /\ backends = <<>>
    /\ active_backend = 1
    /\ last = [op |-> "construct", target |-> 1, variant |-> "none",
               ret |-> "True", prev |-> 1, nobjs |-> 0,
               log |-> <<Call("initialize", 1, "True")>>, input |-> None,
               result |-> None]
    /\ switcher = [pc |-> "idle", variant |-> "none", backend |-> 0,
                   ret |-> "none"]
    /\ reader = [pc |-> "idle", backend |-> 0]
    /\ trip = [calls |-> <<>>, variant |-> "none", ok |-> TRUE, first |-> None]
    /\ frame = [pc |-> "idle"]

\* The variants that have an entry in the table
Registered == {backends[i].key : i \in 1..Len(backends)}

\* self.backends[t]
Lookup(t) == (CHOOSE i \in 1..Len(backends) : backends[i].key = t)

\* self.backends[t] = o with a mistake: an existing key is taken out and
\* put back last
DictSetMovesToEnd(d, t, o) ==
    Append(SelectSeq(d, LAMBDA e : e.key # t), [key |-> t, val |-> o])

\* self.backends[t] = o on an insertion-ordered dict: a new key goes last,
\* an existing key keeps its place
DictSet(d, t, o) ==
    IF \E i \in 1..Len(d) : d[i].key = t
    THEN [i \in 1..Len(d) |-> IF d[i].key = t THEN [key |-> t, val |-> o] ELSE d[i]]
    ELSE Append(d, [key |-> t, val |-> o])

\* A backend class is instantiated by the caller (OpenALBackend(), ...)
New(c, t) ==
    /\ Len(objs) < MaxInstances
    /\ objs' = Append(objs, Construct(c, t, host))
    /\ last' = Returned("construct", Len(objs) + 1,
                        Construct(c, t, host).backend_type, "True", <<>>,
                        None, None)
    /\ UNCHANGED <<host, backends, active_backend, callers>>

\* register_backend with a mistake: the table is a list to which every
\* registered instance is added
RegisterBackendKeepsBoth(c, t) ==
    LET o == Len(objs) + 1
        b == Construct(c, t, host)
    IN  /\ Len(objs) < MaxObjects
        /\ objs' = Append(objs, b)
        /\ backends' = Append(backends, [key |-> b.backend_type, val |-> o])
        /\ last' = Returned("register_backend", o, b.backend_type, "True",
                            <<>>, None, None)
        /\ UNCHANGED <<host, active_backend, callers>>

\* AudioBackendManager.register_backend, called as the server calls it, on
\* an instance constructed for the call: register_backend(OpenALBackend())
RegisterBackend(c, t) ==
    LET o == Len(objs) + 1
        b == Construct(c, t, host)
    IN  /\ Len(objs) < MaxObjects
        /\ objs' = Append(objs, b)
        /\ backends' = DictSet(backends, b.backend_type, o)
        /\ last' = Returned("register_backend", o, b.backend_type, "True",
                            <<>>, None, None)
        /\ UNCHANGED <<host, active_backend, callers>>

\* The variants the plugins of the runs declare
PluginVariants == {"openal"}

\* The instances a caller can construct: the repository's classes and the
\* plugins, each given as <<class, variant declared by a plugin>>
Constructible ==
    {<<c, "none">> : c \in {"Null", "OpenAL", "WindowsSpatial"}}
        \cup {<<"Plugin", t>> : t \in PluginVariants}

\* The backend methods one is_available() call on instance o (b before the
\* call, p what the call gave) invokes: the inherited probe calls initialize()
ProbeLog(o, b, p, io) ==
    IF b.cls \in {"OpenAL", "WindowsSpatial"}
    THEN <<Call("is_available", o, p.ret)>>
    ELSE <<Call("initialize", o, Initialize(b, io).ret),
           Call("is_available", o, p.ret)>>

\* self.active_backend = NullAudioBackend(); self.active_backend.initialize()
\* with a mistake: the new fallback is installed without being initialized
InstallNullNotInitialized(os) ==
    [objs |-> Append(os, NullAudioBackend), active |-> Len(os) + 1,
     ret |-> "True"]

\* self.active_backend = NullAudioBackend(); self.active_backend.initialize():
\* the heap with the new fallback, its identity, and what initialize returned
InstallNull(os) ==
    [objs |-> Append(os, NullInitialize(NullAudioBackend).obj),
     active |-> Len(os) + 1,
     ret |-> NullInitialize(NullAudioBackend).ret]

\* What set_active_backend(t) leaves for its caller to see
Switched(t, r, lg) == Returned("set_active_backend", 0, t, r, lg, None, None)

\* set_active_backend(NONE) with a mistake: an active backend that is
\* already the fallback is kept instead of being replaced
SwitchToNullKeepsFallback(t) ==
    IF objs[active_backend].cls = "Null"
    THEN /\ objs' = [objs EXCEPT ![active_backend] = NullInitialize(@).obj]
         /\ last' = Switched(t, "True",
                             <<Call("shutdown", active_backend, "returned"),
                               Call("initialize", active_backend, "True")>>)
         /\ UNCHANGED active_backend
    ELSE \E so \in ShutdownOutcomes(objs[active_backend]) :
         LET f == InstallNull([objs EXCEPT ![active_backend] = Shutdown(@, so)])
         IN  /\ Len(objs) < MaxObjects
             /\ objs' = f.objs
             /\ active_backend' = f.active
             /\ last' = Switched(t, f.ret,
                                 <<Call("shutdown", active_backend, "returned"),
                                   Call("initialize", f.active, f.ret)>>)

\* AudioBackendManager.set_active_backend, backend_type == NONE: the active
\* backend is shut down and a new NullAudioBackend takes its place
SwitchToNull(t) ==
    \E so \in ShutdownOutcomes(objs[active_backend]) :
        LET objs1 == [objs EXCEPT ![active_backend] = Shutdown(@, so)]
            f == InstallNull(objs1)
        IN  IF ShutdownRet(objs[active_backend], so) = "raised"
            THEN \* nothing catches the exception of shutdown()
                 /\ objs' = objs1
                 /\ last' = Switched(t, "raised",
                                     <<Call("shutdown", active_backend, "raised")>>)
                 /\ UNCHANGED active_backend
            ELSE /\ Len(objs) < MaxObjects
                 /\ objs' = f.objs
                 /\ active_backend' = f.active
                 /\ last' = Switched(t, f.ret,
                                     <<Call("shutdown", active_backend, "returned"),
                                       Call("initialize", f.active, f.ret)>>)

\* set_active_backend(unregistered) with a mistake: the active backend is
\* shut down before the table is looked at
SwitchUnregisteredShutsDown(t) ==
    \E so \in ShutdownOutcomes(objs[active_backend]) :
        /\ objs' = [objs EXCEPT ![active_backend] = Shutdown(@, so)]
        /\ last' = Switched(t, "False",
                            <<Call("shutdown", active_backend, "returned")>>)
        /\ UNCHANGED active_backend

\* set_active_backend(unregistered) with a mistake: it falls back to a new
\* NullAudioBackend, as a failed initialize does
SwitchUnregisteredFallsBack(t) ==
    LET f == InstallNull(objs)
    IN  /\ Len(objs) < MaxObjects
        /\ objs' = f.objs
        /\ active_backend' = f.active
        /\ last' = Switched(t, "False", <<Call("initialize", f.active, f.ret)>>)

\* AudioBackendManager.set_active_backend, backend_type not in self.backends
SwitchUnregistered(t) ==
    /\ last' = Switched(t, "False", <<>>)
    /\ UNCHANGED <<objs, active_backend>>

\* set_active_backend(registered) with a mistake: the active backend is
\* shut down after the requested one was initialized, not before
SwitchRegisteredShutsDownLast(t) ==
    LET cur == active_backend
        o == backends[Lookup(t)].val
    IN  \E po \in ProbeOutcomes(objs[o]) :
        LET p == IsAvailable(objs[o], po)
            objs1 == [objs EXCEPT ![o] = p.obj]
            plog == ProbeLog(o, objs[o], p, po)
        IN  IF p.ret # "True"
            THEN /\ objs' = objs1
                 /\ last' = Switched(t, "False", plog)
                 /\ UNCHANGED active_backend
            ELSE \E io \in InitOutcomes(objs1[o]) :
                 LET r == Initialize(objs1[o], io)
                     objs2 == [objs1 EXCEPT ![o] = r.obj]
                 IN  \E so \in ShutdownOutcomes(objs2[cur]) :
                     LET objs3 == [objs2 EXCEPT ![cur] = Shutdown(@, so)]
                         lg == plog \o <<Call("initialize", o, r.ret),
                                         Call("shutdown", cur, "returned")>>
                     IN  IF r.ret = "True"
                         THEN /\ objs' = objs3
                              /\ active_backend' = o
                              /\ last' = Switched(t, "True", lg)
                         ELSE /\ Len(objs) < MaxObjects
                              /\ objs' = InstallNull(objs3).objs
                              /\ active_backend' = InstallNull(objs3).active
                              /\ last' = Switched(t, "False",
                                   Append(lg, Call("initialize",
                                                   InstallNull(objs3).active,
                                                   InstallNull(objs3).ret)))

\* AudioBackendManager.set_active_backend, a registered variant: the probe,
\* the shutdown of the active backend, the initialize of the requested one,
\* and the fallback to a new NullAudioBackend when that returns False
SwitchRegistered(t) ==
    LET cur == active_backend
        o == backends[Lookup(t)].val
    IN  \E po \in ProbeOutcomes(objs[o]) :
        LET p == IsAvailable(objs[o], po)
            objs1 == [objs EXCEPT ![o] = p.obj]
            plog == ProbeLog(o, objs[o], p, po)
        IN  IF p.ret # "True"
            THEN /\ objs' = objs1
                 /\ last' = Switched(t, "False", plog)
                 /\ UNCHANGED active_backend
            ELSE \E so \in ShutdownOutcomes(objs1[cur]) :
                 LET objs2 == [objs1 EXCEPT ![cur] = Shutdown(@, so)]
                 IN  IF ShutdownRet(objs1[cur], so) = "raised"
                     THEN \* nothing catches the exception of shutdown()
                          /\ objs' = objs2
                          /\ last' = Switched(t, "raised",
                                  Append(plog, Call("shutdown", cur, "raised")))
                          /\ UNCHANGED active_backend
                     ELSE
                     \E io \in InitOutcomes(objs2[o]) :
                     LET r == Initialize(objs2[o], io)
                         objs3 == [objs2 EXCEPT ![o] = r.obj]
                         lg == plog \o <<Call("shutdown", cur, "returned"),
                                         Call("initialize", o, r.ret)>>
                     IN  IF r.ret = "True"
                         THEN /\ objs' = objs3
                              /\ active_backend' = o
                              /\ last' = Switched(t, "True", lg)
                         ELSE IF r.ret = "raised"
                         THEN \* nor that of initialize(): the active backend
                              \* stays the one that was shut down
                              /\ objs' = objs3
                              /\ last' = Switched(t, "raised", lg)
                              /\ UNCHANGED active_backend
                         ELSE /\ Len(objs) < MaxObjects
                              /\ objs' = InstallNull(objs3).objs
                              /\ active_backend' = InstallNull(objs3).active
                              /\ last' = Switched(t, "False",
                                   Append(lg, Call("initialize",
                                                   InstallNull(objs3).active,
                                                   InstallNull(objs3).ret)))

\* AudioBackendManager.set_active_backend
set_active_backend(t) ==
    /\ UNCHANGED <<host, backends>>
    /\ IF t = "none" THEN SwitchToNull(t)
       ELSE IF t \notin Registered THEN SwitchUnregistered(t)
       ELSE SwitchRegistered(t)

\* One set_active_backend(t) call by a caller who keeps no notes
SetActiveBackend(t) == set_active_backend(t) /\ UNCHANGED callers

\* AudioBackendManager.get_active_backend
get_active_backend == active_backend

\* The loop of list_available_backends from table entry i on: every way
\* the probes and the info queries can answer, as the heap and the list
\* they leave.
RECURSIVE ProbeAll(_, _, _, _)
ProbeAll(os, i, acc, lg) ==
    IF i > Len(backends)
    THEN {[objs |-> os, available |-> acc, log |-> lg]}
    ELSE LET o == backends[i].val
         IN  UNION {
               LET p == IsAvailable(os[o], po)
                   os1 == [os EXCEPT ![o] = p.obj]
                   lg1 == lg \o ProbeLog(o, os[o], p, po)
               IN  IF p.ret = "True"
                   THEN UNION {ProbeAll(os1, i + 1,
                                        Append(acc, get_backend_info(p.obj, q)),
                                        lg1)
                               : q \in InfoOutcomes(p.obj)}
                   ELSE ProbeAll(os1, i + 1, acc, lg1)
               : po \in ProbeOutcomes(os[o])}

\* AudioBackendManager.list_available_backends
ListAvailableBackends ==
    \E r \in ProbeAll(objs, 1, <<get_backend_info(NullAudioBackend, "ok")>>, <<>>) :
        /\ objs' = r.objs
        /\ last' = Returned("list_available_backends", 0, "none", "returned",
                            r.log, None, r.available)
        /\ UNCHANGED <<host, backends, active_backend, callers>>

\* AudioBackendManager.get_backend_capabilities
GetBackendCapabilities ==
    /\ last' = Returned("get_backend_capabilities", active_backend, "none",
                        "returned", <<>>, None,
                        get_capabilities(objs[active_backend]))
    /\ UNCHANGED <<host, objs, backends, active_backend, callers>>

\* o.process_spatial_audio(md, lp, orientation) with a mistake: a call that
\* does not succeed marks the backend as not initialized
ProcessClearsFlag(o, md, lp) ==
    \E q \in InfoOutcomes(objs[o]) :
        LET r == process_spatial_audio(objs[o], md, lp, q)
        IN  /\ last' = Returned("process_spatial_audio", o, "none", r.ret, <<>>,
                                [audio_metadata |-> md, listener_position |-> lp],
                                r.result)
            /\ objs' = IF r.ret = "returned" /\ r.result.success
                       THEN objs
                       ELSE [objs EXCEPT ![o].initialized = FALSE]
            /\ UNCHANGED <<host, backends, active_backend, callers>>

\* o.process_spatial_audio(md, lp, orientation)
Process(o, md, lp) ==
    \E q \in InfoOutcomes(objs[o]) :
        LET r == process_spatial_audio(objs[o], md, lp, q)
        IN  /\ last' = Returned("process_spatial_audio", o, "none", r.ret, <<>>,
                                [audio_metadata |-> md, listener_position |-> lp],
                                r.result)
            /\ UNCHANGED <<host, objs, backends, active_backend, callers>>

\* The server's process_spatial_audio tool: the active backend processes
ProcessActive(md, lp) == Process(get_active_backend, md, lp)

\* o.initialize() called on an instance directly
CallInitialize(o) ==
    \E io \in InitOutcomes(objs[o]) :
        LET r == Initialize(objs[o], io)
        IN  /\ objs' = [objs EXCEPT ![o] = r.obj]
            /\ last' = Returned("initialize", o, "none", r.ret, <<>>,
                                objs[o], None)
            /\ UNCHANGED <<host, backends, active_backend, callers>>

\* o.shutdown() called on an instance directly
CallShutdown(o) ==
    \E so \in ShutdownOutcomes(objs[o]) :
        /\ objs' = [objs EXCEPT ![o] = Shutdown(@, so)]
        /\ last' = Returned("shutdown", o, "none", ShutdownRet(objs[o], so),
                            <<>>, objs[o], None)
        /\ UNCHANGED <<host, backends, active_backend, callers>>

\* The manager and its callers: the operations of AudioBackendManager and
\* the processing of a profile by the active backend
Next ==
    \/ \E ct \in Constructible : RegisterBackend(ct[1], ct[2])
    \/ \E t \in AudioBackendType : SetActiveBackend(t)
    \/ ListAvailableBackends
    \/ GetBackendCapabilities
    \/ \E md \in Profiles, lp \in ListenerPositions : ProcessActive(md, lp)

Spec == Init /\ [][Next]_vars

\* Backend instances on their own: constructed and driven through their
\* lifecycle by direct calls, the manager left alone
NextBackend ==
    \/ \E ct \in Constructible : New(ct[1], ct[2])
    \/ \E o \in 1..Len(objs) : CallInitialize(o)
    \/ \E o \in 1..Len(objs) : CallShutdown(o)
    \/ \E o \in 1..Len(objs), md \in Profiles, lp \in ListenerPositions :
          Process(o, md, lp)

SpecBackend == Init /\ [][NextBackend]_vars

------------------------------------------------------------------------------
\* set_active_backend on one thread and a reader on another
\*
\* AudioBackendManager has no lock: a thread switch can fall between any
\* two statements of set_active_backend. Each statement (one method call or
\* one assignment) is a step; switcher.pc names the statement to run next.

\* set_active_backend(t) is entered: the test for NONE, the test of the
\* table, and backend = self.backends[backend_type]
SwitchBegin(t) ==
    /\ switcher.pc = "idle"
    /\ switcher' =
          IF t = "none"
          THEN [pc |-> "shutdown", variant |-> t, backend |-> 0, ret |-> "none"]
          ELSE IF t \notin Registered
          THEN [pc |-> "idle", variant |-> t, backend |-> 0, ret |-> "False"]
          ELSE [pc |-> "is_available", variant |-> t,
                backend |-> backends[Lookup(t)].val, ret |-> "none"]
    /\ UNCHANGED <<host, objs, backends, active_backend, last, reader, trip, frame>>

\* if not backend.is_available(): return False
SwitchProbe ==
    /\ switcher.pc = "is_available"
    /\ \E po \in ProbeOutcomes(objs[switcher.backend]) :
          LET p == IsAvailable(objs[switcher.backend], po)
          IN  /\ objs' = [objs EXCEPT ![switcher.backend] = p.obj]
              /\ switcher' =
                    IF p.ret = "True"
                    THEN [switcher EXCEPT !.pc = "shutdown"]
                    ELSE [switcher EXCEPT !.pc = "idle", !.ret = "False"]
    /\ UNCHANGED <<host, backends, active_backend, last, reader, trip, frame>>

\* self.active_backend.shutdown(), on either path
SwitchShutdown ==
    /\ switcher.pc = "shutdown"
    /\ \E so \in ShutdownOutcomes(objs[active_backend]) :
          objs' = [objs EXCEPT ![active_backend] = Shutdown(@, so)]
    /\ switcher' = [switcher EXCEPT
                       !.pc = IF switcher.variant = "none"
                              THEN "install_null" ELSE "initialize"]
    /\ UNCHANGED <<host, backends, active_backend, last, reader, trip, frame>>

\* if backend.initialize():
SwitchInitialize ==
    /\ switcher.pc = "initialize"
    /\ \E io \in InitOutcomes(objs[switcher.backend]) :
          LET r == Initialize(objs[switcher.backend], io)
          IN  /\ objs' = [objs EXCEPT ![switcher.backend] = r.obj]
              /\ switcher' = [switcher EXCEPT
                                 !.pc = IF r.ret = "True"
                                        THEN "assign" ELSE "install_null"]
    /\ UNCHANGED <<host, backends, active_backend, last, reader, trip, frame>>

\* self.active_backend = backend; return True
SwitchAssign ==
    /\ switcher.pc = "assign"
    /\ active_backend' = switcher.backend
    /\ switcher' = [switcher EXCEPT !.pc = "idle", !.ret = "True"]
    /\ UNCHANGED <<host, objs, backends, last, reader, trip, frame>>

\* self.active_backend = NullAudioBackend(), on either path
SwitchInstallNull ==
    /\ switcher.pc = "install_null"
    /\ Len(objs) < MaxObjects
    /\ objs' = Append(objs, NullAudioBackend)
    /\ active_backend' = Len(objs) + 1
    /\ switcher' = [switcher EXCEPT !.pc = "initialize_null"]
    /\ UNCHANGED <<host, backends, last, reader, trip, frame>>

\* self.active_backend.initialize(), whose value the NONE path returns;
\* the fallback path returns False
SwitchInitializeNull ==
    /\ switcher.pc = "initialize_null"
    /\ objs' = [objs EXCEPT ![active_backend] = Initialize(@, "ok").obj]
    /\ switcher' = [switcher EXCEPT
                       !.pc = "idle",
                       !.ret = IF switcher.variant = "none"
                               THEN Initialize(objs[active_backend], "ok").ret
                               ELSE "False"]
    /\ UNCHANGED <<host, backends, active_backend, last, reader, trip, frame>>

\* The reader's backend_manager.get_active_backend()
ReaderGet ==
    /\ reader.pc = "idle"
    /\ reader' = [pc |-> "process", backend |-> get_active_backend]
    /\ UNCHANGED <<host, objs, backends, active_backend, last, switcher, trip, frame>>

\* The reader's .process_spatial_audio(...) on the reference it obtained
ReaderProcess(md, lp) ==
    /\ reader.pc = "process"
    /\ \E q \in InfoOutcomes(objs[reader.backend]) :
          LET r == process_spatial_audio(objs[reader.backend], md, lp, q)
          IN  last' = Returned("process_spatial_audio", reader.backend, "none",
                               r.ret, <<>>,
                               [audio_metadata |-> md, listener_position |-> lp],
                               r.result)
    /\ reader' = [pc |-> "idle", backend |-> 0]
    /\ UNCHANGED <<host, objs, backends, active_backend, switcher, trip, frame>>

\* No call has been made on the manager yet
AtStartup ==
    /\ last.op \in {"construct", "register_backend"}
    /\ switcher.pc = "idle"
    /\ switcher.ret = "none"
    /\ reader.pc = "idle"

\* The backends are registered when the server module is loaded; then the
\* two threads run, their statements interleaved
NextConcurrent ==
    \/ \E ct \in Constructible : AtStartup /\ RegisterBackend(ct[1], ct[2])
    \/ \E t \in AudioBackendType : SwitchBegin(t)
    \/ SwitchProbe
    \/ SwitchShutdown
    \/ SwitchInitialize
    \/ SwitchAssign
    \/ SwitchInstallNull
    \/ SwitchInitializeNull
    \/ ReaderGet
    \/ \E md \in Profiles, lp \in ListenerPositions : ReaderProcess(md, lp)

SpecConcurrent == Init /\ [][NextConcurrent]_vars

------------------------------------------------------------------------------
\* The table on its own

\* AudioBackendManager.register_backend on an instance that exists already
\* (one registered before, under its variant, or not)
RegisterInstance(o) ==
    /\ backends' = DictSet(backends, objs[o].backend_type, o)
    /\ last' = Returned("register_backend", o, objs[o].backend_type, "True",
                        <<>>, None, None)
    /\ UNCHANGED <<host, objs, active_backend, callers>>

\* Instances are constructed, registered and registered again, driven
\* through their lifecycle, and the table is listed
NextRegistry ==
    \/ \E ct \in Constructible : New(ct[1], ct[2])
    \/ \E o \in 1..Len(objs) : RegisterInstance(o)
    \/ \E o \in 1..Len(objs) : CallInitialize(o)
    \/ \E o \in 1..Len(objs) : CallShutdown(o)
    \/ ListAvailableBackends

SpecRegistry == Init /\ [][NextRegistry]_vars

------------------------------------------------------------------------------
\* A caller who activates a backend, switches to the fallback and back

\* The identity fields of b.get_backend_info()
InfoIdentity(b) ==
    [name |-> get_backend_info(b, "ok").name,
     type |-> get_backend_info(b, "ok").type,
     version |-> get_backend_info(b, "ok").version,
     description |-> get_backend_info(b, "ok").description]

\* What the caller notes of the manager: the active instance, its flag,
\* get_backend_capabilities() and the identity of its get_backend_info()
Snapshot(a, os) ==
    [active |-> a, ready |-> os[a].initialized,
     capabilities |-> get_capabilities(os[a]), info |-> InfoIdentity(os[a])]

\* No is_available() and no initialize() in the log lg returned False
AllSucceeded(lg) ==
    \A i \in DOMAIN lg :
        lg[i].call \in {"is_available", "initialize"} => lg[i].ret = "True"

\* The first call: set_active_backend(t) for a registered variant t
TripFirst(t) ==
    /\ trip.calls = <<>>
    /\ t # "none"
    /\ t \in Registered
    /\ set_active_backend(t)
    /\ trip' = [calls |-> <<last'.ret>>, variant |-> t,
                ok |-> AllSucceeded(last'.log),
                first |-> Snapshot(active_backend', objs')]
    /\ UNCHANGED <<switcher, reader, frame>>

\* The second call: set_active_backend(NONE)
TripSecond ==
    /\ Len(trip.calls) = 1
    /\ set_active_backend("none")
    /\ trip' = [trip EXCEPT !.calls = Append(@, last'.ret),
                            !.ok = @ /\ AllSucceeded(last'.log)]
    /\ UNCHANGED <<switcher, reader, frame>>

\* The third call: set_active_backend(t) again
TripThird ==
    /\ Len(trip.calls) = 2
    /\ set_active_backend(trip.variant)
    /\ trip' = [trip EXCEPT !.calls = Append(@, last'.ret),
                            !.ok = @ /\ AllSucceeded(last'.log)]
    /\ UNCHANGED <<switcher, reader, frame>>

\* Backends are registered and switched in any way; then the three calls
\* are made one after the other
NextRoundTrip ==
    \/ \E ct \in Constructible :
          trip.calls = <<>> /\ RegisterBackend(ct[1], ct[2])
    \/ \E t \in AudioBackendType : trip.calls = <<>> /\ SetActiveBackend(t)
    \/ \E t \in AudioBackendType : TripFirst(t)
    \/ TripSecond
    \/ TripThird

SpecRoundTrip == Init /\ [][NextRoundTrip]_vars

------------------------------------------------------------------------------
\* The manager with a plugin whose methods raise

\* The variants the raising plugins of the runs declare
FaultyVariants == {"windows_spatial"}

\* The manager's table takes any AudioBackend: the classes of the
\* repository, the plugins, and the plugins whose initialize() or
\* shutdown() raise
NextFaulty ==
    \/ \E ct \in Constructible \cup {<<"FaultyPlugin", t>> : t \in FaultyVariants} :
          RegisterBackend(ct[1], ct[2])
    \/ \E t \in AudioBackendType : SetActiveBackend(t)

SpecFaulty == Init /\ [][NextFaulty]_vars

-------------------------------------------------------------------------------
\* _calculate_spatial_parameters of the two spatial backends, statement by
\* statement where it loops. Angles are whole degrees.

\* The greatest source distance of the attenuation inputs
MaxDistance == 7

\* A double as large as 1e20 has its neighbours 16384 apart: adding or
\* subtracting 360.0 rounds back to the same double. The model's integers
\* are 32 bits wide, so this magnitude stands for the doubles that far out;
\* below it the arithmetic on the whole degrees of the runs is exact.
AbsorbingMagnitude == 1048576

\* x + k as doubles compute it
FloatAdd(x, k) ==
    IF x >= AbsorbingMagnitude \/ x <= -AbsorbingMagnitude THEN x
    ELSE IF k >= AbsorbingMagnitude \/ k <= -AbsorbingMagnitude THEN k
    ELSE x + k

\* math.degrees(math.atan2(dx, dz)), for a displacement along one horizontal
\* axis (or none): atan2(0, 0) is 0
Atan2Degrees(dx, dz) ==
    CASE dx = 0 /\ dz >= 0 -> 0
      [] dx = 0 /\ dz < 0 -> 180
      [] dx > 0 /\ dz = 0 -> 90
      [] dx < 0 /\ dz = 0 -> -90

\* The displacement listener -> source used for the angles: (0, 0, 0)
\* without a source position
Displacement(md, lp) ==
    IF md.position = None THEN [x |-> 0, y |-> 0, z |-> 0]
    ELSE [x |-> md.position.x - lp.x, y |-> md.position.y - lp.y,
          z |-> md.position.z - lp.z]

\* azimuth - listener_yaw (Windows Spatial), angle_to_source - yaw (OpenAL)
RelativeAngle(md, lp, yaw) ==
    FloatAdd(Atan2Degrees(Displacement(md, lp).x, Displacement(md, lp).z),
             -yaw)

\* The listener yaws of the runs, in degrees
Yaws ==
    {-630, -270, -180, 0, 180, 270, 630,
     -AbsorbingMagnitude, AbsorbingMagnitude}

\* The inputs of the runs. Sources along the x axis at every whole distance,
\* with several falloffs and occlusion factors:
AttenuationInputs ==
    {[audio_metadata |-> md, listener_position |-> lp, yaw |-> 0] :
        md \in [volume_db : {-18}, volume_is_number : {TRUE},
                spatial_falloff : {0, 25}, occlusion_factor : {0, 7, 10},
                position : {SpatialPosition(d, 0, 0) : d \in 0..MaxDistance}],
        lp \in ListenerPositions}

\* sources on the four horizontal axes, under every yaw:
AngleInputs ==
    {[audio_metadata |-> md, listener_position |-> lp, yaw |-> y] :
        md \in [volume_db : {-18}, volume_is_number : {TRUE},
                spatial_falloff : {25}, occlusion_factor : {7},
                position : {SpatialPosition(0, 0, 4), SpatialPosition(4, 0, 0),
                            SpatialPosition(0, 0, -4),
                            SpatialPosition(-4, 0, 0)}],
        lp \in ListenerPositions, y \in Yaws}

\* no source position, a source at the listener's position, and sources off
\* the axes, around a listener away from the origin:
DirectionInputs ==
    {[audio_metadata |-> md, listener_position |-> lp, yaw |-> 0] :
        md \in [volume_db : {-18}, volume_is_number : {TRUE},
                spatial_falloff : {25}, occlusion_factor : {7},
                position : {None, SpatialPosition(1, 2, 0),
                            SpatialPosition(4, 6, 0),
                            SpatialPosition(1, -2, 0)}],
        lp \in {SpatialPosition(1, 2, 0)}}

CalculateInputs == AttenuationInputs \cup AngleInputs \cup DirectionInputs

\* The penalty constant of a class
OcclusionPenalty(c) ==
    IF c = "OpenAL" THEN OpenALOcclusionPenalty
    ELSE WindowsSpatialOcclusionPenalty

\* The call begins: distance, direction and the relative angle. Only the
\* Windows Spatial backend goes on to normalise the angle.
CalculateBegin(c, in) ==
    /\ frame.pc = "idle"
    /\ frame' = [pc |-> IF c = "OpenAL" THEN "attenuate" ELSE "while_above",
                 cls |-> c, input |-> in,
                 distance |-> Distance(in.audio_metadata, in.listener_position),
                 direction |-> Direction(in.audio_metadata,
                                         in.listener_position),
                 relative_azimuth |->
                     RelativeAngle(in.audio_metadata, in.listener_position,
                                   in.yaw)]
    /\ UNCHANGED <<host, objs, backends, active_backend, last, switcher,
                   reader, trip>>

\* while relative_azimuth > 180: relative_azimuth -= 360
WhileAbove ==
    /\ frame.pc = "while_above"
    /\ frame' = IF frame.relative_azimuth > 180
                THEN [frame EXCEPT !.relative_azimuth = FloatAdd(@, -360)]
                ELSE [frame EXCEPT !.pc = "while_below"]
    /\ UNCHANGED <<host, objs, backends, active_backend, last, switcher,
                   reader, trip>>

\* while relative_azimuth < -180: relative_azimuth += 360
WhileBelow ==
    /\ frame.pc = "while_below"
    /\ frame' = IF frame.relative_azimuth < -180
                THEN [frame EXCEPT !.relative_azimuth = FloatAdd(@, 360)]
                ELSE [frame EXCEPT !.pc = "attenuate"]
    /\ UNCHANGED <<host, objs, backends, active_backend, last, switcher,
                   reader, trip>>

\* The attenuation, and the dict returned: the OpenAL backend reports the
\* relative angle as it is (relative_angle_degrees), the Windows Spatial
\* backend the normalised one (azimuth)
CalculateReturn ==
    /\ frame.pc = "attenuate"
    /\ last' = Returned("_calculate_spatial_parameters", 0,
                        IF frame.cls = "OpenAL" THEN "openal"
                        ELSE "windows_spatial",
                        "returned", <<>>, frame.input,
                        [cls |-> frame.cls,
                         distance |-> frame.distance,
                         direction |-> frame.direction,
                         angle |-> frame.relative_azimuth,
                         attenuated_volume_db |->
                             Attenuate(frame.input.audio_metadata,
                                       frame.distance,
                                       OcclusionPenalty(frame.cls))])
    /\ frame' = [pc |-> "idle"]
    /\ UNCHANGED <<host, objs, backends, active_backend, switcher, reader,
                   trip>>

NextCalculate ==
    \/ \E c \in {"OpenAL", "WindowsSpatial"}, in \in CalculateInputs :
          CalculateBegin(c, in)
    \/ WhileAbove
    \/ WhileBelow
    \/ CalculateReturn

SpecCalculate == Init /\ [][NextCalculate]_vars

\* The interpreter runs the statements of a call under way one after another
SpecCalculateFair ==
    /\ SpecCalculate
    /\ WF_vars(WhileAbove)
    /\ WF_vars(WhileBelow)
    /\ WF_vars(CalculateReturn)

-------------------------------------------------------------------------------
\* The conversion of decibels to a linear gain in _generate_openal_parameters
\* (AL_GAIN) and _generate_windows_spatial_parameters (Volume). Decibels are
\* tenths, as everywhere; a gain is 0.0, 1.0 or the double 10^(db/20)
\* strictly between them, kept by its exponent.

\* math.pow(10, db / 20.0) raises OverflowError from 6165.1 dB on
PowOverflowsFrom == 61651
\* and underflows to 0.0 from -6472.2 dB down
PowUnderflowsFrom == -64722

\* math.pow(10, db / 20.0)
Pow10(db) ==
    IF db >= PowOverflowsFrom THEN [kind |-> "OverflowError"]
    ELSE IF db <= PowUnderflowsFrom THEN [kind |-> "zero"]
    ELSE IF db = 0 THEN [kind |-> "one"]
    ELSE [kind |-> "pow10", tenths_db |-> db]

\* max(0.0, min(1.0, g)): a power of ten above 1.0 becomes 1.0, and none is
\* below 0.0
Clamp(g) ==
    IF g.kind = "pow10" /\ g.tenths_db > 0 THEN [kind |-> "one"] ELSE g

\* The attenuated volumes of the runs, in tenths of a decibel
Decibels == {-80000, -10000, -430, -1, 0, 1, 200, 10000, 70000}

\* _generate_openal_parameters and _generate_windows_spatial_parameters on
\* spatial_data whose attenuated volume is db: the gain of the block, or the
\* exception
GenerateParameters(c, db) ==
    /\ frame.pc = "idle"
    /\ last' = IF Pow10(db).kind = "OverflowError"
               THEN Returned(IF c = "OpenAL" THEN "_generate_openal_parameters"
                             ELSE "_generate_windows_spatial_parameters",
                             0, "none", "raised", <<>>,
                             [attenuated_volume_db |-> db], None)
               ELSE Returned(IF c = "OpenAL" THEN "_generate_openal_parameters"
                             ELSE "_generate_windows_spatial_parameters",
                             0, "none", "returned", <<>>,
                             [attenuated_volume_db |-> db],
                             [gain |-> Clamp(Pow10(db))])
    /\ UNCHANGED <<host, objs, backends, active_backend, callers>>

NextGenerate ==
    \/ NextCalculate
    \/ \E c \in {"OpenAL", "WindowsSpatial"}, db \in Decibels :
          GenerateParameters(c, db)

SpecGenerate == Init /\ [][NextGenerate]_vars

------------------------------------------------------------------------------
\* Properties

\* The last call was set_active_backend
IsSwitch == last.op = "set_active_backend"

\* The last call invoked the backend method c
InLog(c) == \E i \in DOMAIN last.log : last.log[i] = c

\* The last call was set_active_backend(t) for a registered variant t whose
\* probe passed and whose initialize() then returned False
InitFailedSwitch ==
    /\ IsSwitch
    /\ last.variant # "none"
    /\ last.variant \in Registered
    /\ LET o == backends[Lookup(last.variant)].val
       IN  \E i, j \in DOMAIN last.log :
              /\ i < j
              /\ last.log[i] = Call("is_available", o, "True")
              /\ last.log[j] = Call("initialize", o, "False")

\* The active backend is a NullAudioBackend constructed by the last call,
\* initialized, and no entry of the table
FreshFallbackActive ==
    /\ active_backend = last.nobjs + 1
    /\ Len(objs) = last.nobjs + 1
    /\ active_backend # last.prev
    /\ objs[active_backend].cls = "Null"
    /\ objs[active_backend].initialized
    /\ \A i \in 1..Len(backends) : backends[i].val # active_backend

\* C1: between the operations of the manager, the active backend is
\* initialized, whatever the variants registered (the original claim; it
\* fails for a backend that inherits the base-class is_available()).
C1_ActiveAlwaysReady ==
    /\ active_backend \in 1..Len(objs)
    /\ objs[active_backend].initialized

\* C2: when set_active_backend(t) finds t registered and available and its
\* initialize() returns False, the call returns False, shutdown() has been
\* called on the previously active backend, and the active backend is a new
\* NullAudioBackend, initialized.
C2_InitFailureFallsBack ==
    InitFailedSwitch =>
        /\ last.ret = "False"
        /\ InLog(Call("shutdown", last.prev, "returned"))
        /\ FreshFallbackActive

\* C2's case: a registered backend that was active fails to initialize
\* again, and the fallback has taken its place
C2_Witness ==
    /\ InitFailedSwitch
    /\ objs[last.prev].cls # "Null"
    /\ objs[active_backend].cls = "Null"

\* C3: a step of set_active_backend(t) for a variant t other than NONE that
\* is not in the table returns False, invokes no backend method, and leaves
\* the active reference and every instance (so the readiness of the active
\* one) as they were.
C3_UnregisteredLeavesActive ==
    [][(/\ last'.op = "set_active_backend"
        /\ last'.variant # "none"
        /\ last'.variant \notin Registered)
       => (/\ last'.ret = "False"
           /\ last'.log = <<>>
           /\ active_backend' = active_backend
           /\ objs' = objs)]_vars

\* C3's case: an unregistered variant was requested while a registered
\* backend was active and ready
C3_Witness ==
    /\ IsSwitch
    /\ last.variant # "none"
    /\ last.variant \notin Registered
    /\ objs[active_backend].cls # "Null"
    /\ objs[active_backend].initialized

\* C4: a step of set_active_backend(t) for a registered variant t whose
\* is_available() returns False returns False and leaves the active
\* backend as it was: the same instance, not shut down, in the same state
\* (the original claim; it fails when t is the active variant and the
\* probe is the inherited one, which calls initialize()).
C4_UnavailableLeavesActive ==
    [][(/\ last'.op = "set_active_backend"
        /\ last'.variant # "none"
        /\ last'.variant \in Registered
        /\ \E i \in DOMAIN last'.log :
              last'.log[i] = Call("is_available",
                                  backends[Lookup(last'.variant)].val, "False"))
       => (/\ last'.ret = "False"
           /\ active_backend' = active_backend
           /\ objs'[active_backend] = objs[active_backend]
           /\ \A i \in DOMAIN last'.log : last'.log[i].call # "shutdown")]_vars

\* C5: set_active_backend(NONE) returns True, calls shutdown() on the
\* active backend first, and leaves as the active backend a NullAudioBackend
\* constructed by the call: initialized, not the previous active backend
\* and no entry of the table.
C5_NoneInstallsFreshFallback ==
    (IsSwitch /\ last.variant = "none") =>
        /\ last.ret = "True"
        /\ last.log[1] = Call("shutdown", last.prev, "returned")
        /\ FreshFallbackActive

\* C5's case: NONE was requested while a registered backend was active and
\* the table held a NullAudioBackend as well
C5_Witness ==
    /\ IsSwitch
    /\ last.variant = "none"
    /\ last.ret = "True"
    /\ objs[last.prev].cls # "Null"
    /\ backends # <<>>

\* C6 (the original claim): whenever set_active_backend returns False, the
\* active backend is the fallback.
C6_FalseMeansFallback ==
    (IsSwitch /\ last.ret = "False") => objs[active_backend].cls = "Null"

\* C6 (amended): whenever set_active_backend returns False, either the
\* requested backend's initialize() returned False and the active backend
\* is a new initialized NullAudioBackend, or the call stopped at the table
\* lookup or at the probe, and then the active reference is the one from
\* before the call, no instance was constructed and shutdown() was not
\* called.
C6_FalseMeansFallbackOrUnchanged ==
    (IsSwitch /\ last.ret = "False") =>
        IF InitFailedSwitch
        THEN FreshFallbackActive
        ELSE /\ active_backend = last.prev
             /\ Len(objs) = last.nobjs
             /\ \A i \in DOMAIN last.log : last.log[i].call # "shutdown"

\* C6's case: a switch returned False and the active backend is still the
\* OpenAL backend, ready
C6_Witness ==
    /\ IsSwitch
    /\ last.ret = "False"
    /\ ~InitFailedSwitch
    /\ objs[active_backend].cls = "OpenAL"
    /\ objs[active_backend].initialized

\* The last call was process_spatial_audio
IsProcess == last.op = "process_spatial_audio"

\* C7: process_spatial_audio on an instance that is not initialized returns
\* a result with success = False and no parameters, for every variant (the
\* original claim; it fails for NullAudioBackend, which does not look at
\* its flag).
C7_NotReadyIsReportedFailure ==
    (IsProcess /\ ~objs[last.target].initialized) =>
        /\ last.ret = "returned"
        /\ ~last.result.success
        /\ last.result.processed_audio = None

\* C8: every AudioProcessingResult that process_spatial_audio returns with
\* success = False has no parameters (processed_audio is None).
C8_FailureHasNoParameters ==
    (IsProcess /\ last.ret = "returned" /\ ~last.result.success) =>
        last.result.processed_audio = None

\* C8's case: a ready OpenAL backend caught the exception a malformed
\* profile raised and returned the failure
C8_Witness ==
    /\ IsProcess
    /\ last.ret = "returned"
    /\ objs[last.target].cls = "OpenAL"
    /\ objs[last.target].initialized
    /\ ~last.input.audio_metadata.volume_is_number
    /\ ~last.result.success
    /\ last.result.message = "processing error"

\* C9: no exception leaves process_spatial_audio of a ready backend, and a
\* profile whose arithmetic raises gives a result with success = False (the
\* original claim; it fails for NullAudioBackend, which has no try/except).
C9_ReadyProcessNeverRaises ==
    (IsProcess /\ objs[last.target].initialized) => last.ret = "returned"

\* C10: shutdown() returns and leaves the instance not initialized, from
\* every lifecycle state and however the release of its resources goes (the
\* original claim; it fails for a ready OpenAL backend whose context or
\* device release raises).
C10_ShutdownLeavesUninitialized ==
    last.op = "shutdown" =>
        /\ last.ret = "returned"
        /\ ~objs[last.target].initialized

\* The last call was initialize() called on an instance directly
IsInitialize == last.op = "initialize"

\* C11: an initialize() that does not succeed returns False, raises nothing
\* and leaves the instance not initialized, also when the instance was
\* initialized before the call (the original claim; it fails for a ready
\* OpenAL backend whose device or context cannot be obtained again).
C11_FailedInitializeLeavesNotReady ==
    (IsInitialize /\ last.ret # "True") =>
        /\ last.ret = "False"
        /\ ~objs[last.target].initialized

\* C12: while set_active_backend runs on another thread, the backend a
\* reader obtained from get_active_backend() is initialized from the moment
\* it is obtained until it is used (the original claim; it fails because
\* set_active_backend shuts the active backend down before it replaces the
\* reference, and installs the fallback before it initializes it).
C12_ReaderSeesReadyBackend ==
    reader.pc = "process" => objs[reader.backend].initialized

\* A step that is a process_spatial_audio call
ProcessStep == last'.op = "process_spatial_audio"

\* A process_spatial_audio step that repeats the call before it: the same
\* instance, initialized, and the same arguments
RepeatedProcessStep ==
    /\ IsProcess
    /\ ProcessStep
    /\ last'.target = last.target
    /\ last'.input = last.input
    /\ objs[last.target].initialized

\* What process_spatial_audio leaves alone: the active reference, the
\* table, and every instance with its flag
ProcessFrame ==
    /\ active_backend' = active_backend
    /\ backends' = backends
    /\ objs' = objs

\* Two outcomes of process_spatial_audio that agree in everything but the
\* live diagnostic fields of backend_info
SameButDiagnostics(r1, r2) ==
    IF r1 = None \/ r2 = None THEN r1 = r2
    ELSE /\ r1.success = r2.success
         /\ r1.message = r2.message
         /\ r1.processed_audio = r2.processed_audio
         /\ r1.backend_info.name = r2.backend_info.name
         /\ r1.backend_info.type = r2.backend_info.type
         /\ r1.backend_info.version = r2.backend_info.version
         /\ r1.backend_info.description = r2.backend_info.description

Keys(d) == [i \in 1..Len(d) |-> d[i].key]

\* The entries of table d whose is_available() returned True in the log lg
Available(d, lg) ==
    SelectSeq(d, LAMBDA e :
        \E j \in DOMAIN lg : lg[j] = Call("is_available", e.val, "True"))

\* The list res is the fallback's info followed by the info of the entries
\* of d that lg shows available, in the order of d; every entry was probed
ListedInOrder(d, os, lg, res) ==
    /\ \A i \in DOMAIN d : \E j \in DOMAIN lg :
          lg[j].call = "is_available" /\ lg[j].obj = d[i].val
    /\ Len(res) = Len(Available(d, lg)) + 1
    /\ res[1] = get_backend_info(NullAudioBackend, "ok")
    /\ \A k \in DOMAIN Available(d, lg) :
          \E q \in InfoOutcomes(os[Available(d, lg)[k].val]) :
              res[k + 1] = get_backend_info(os[Available(d, lg)[k].val], q)

\* C14: a register_backend step puts a new variant last in the table and
\* leaves a variant registered before in its place, and a
\* list_available_backends step returns the NullAudioBackend info first,
\* then the info of exactly the registered backends whose is_available()
\* returned True, in the order of the table: the order of first registration.
C14_ListedInRegistrationOrder ==
    [][/\ last'.op = "register_backend" =>
             Keys(backends') = IF last'.variant \in Registered
                               THEN Keys(backends)
                               ELSE Append(Keys(backends), last'.variant)
       /\ last'.op = "list_available_backends" =>
             ListedInOrder(backends', objs', last'.log, last'.result)]_vars

\* C14's case: the table has two entries, registered in the order opposite
\* to that of their construction; the first was probed unavailable and is
\* not in the list, the second is
C14_Witness ==
    /\ last.op = "list_available_backends"
    /\ Len(backends) = 2
    /\ backends[1].val > backends[2].val
    /\ InLog(Call("is_available", backends[1].val, "False"))
    /\ Len(last.result) = 2
    /\ last.result[2].type = backends[2].key

\* C15: a register_backend(b) step returns True, invokes no backend method
\* and changes no instance, leaves the active reference as it was, and
\* leaves in the table b under its variant with every other variant's entry
\* as before and no variant twice.
C15_RegisterStoresUnderVariant ==
    [][last'.op = "register_backend" =>
          /\ last'.ret = "True"
          /\ last'.log = <<>>
          /\ active_backend' = active_backend
          /\ \A o \in 1..Len(objs) : objs'[o] = objs[o]
          /\ objs'[last'.target].backend_type = last'.variant
          /\ ~objs'[last'.target].initialized
          /\ \E i \in DOMAIN backends' :
                backends'[i] = [key |-> last'.variant, val |-> last'.target]
          /\ \A i, j \in DOMAIN backends' :
                backends'[i].key = backends'[j].key => i = j
          /\ \A i \in DOMAIN backends :
                backends[i].key # last'.variant =>
                    \E j \in DOMAIN backends' : backends'[j] = backends[i]
          /\ Len(backends') = IF last'.variant \in Registered
                              THEN Len(backends) ELSE Len(backends) + 1]_vars

\* C15's case: a second instance of the active backend's variant has been
\* registered: the table holds the new instance only, and the one it
\* replaced is still active and initialized
C15_Witness ==
    /\ last.op = "register_backend"
    /\ Len(backends) = 1
    /\ backends[1].val = last.target
    /\ active_backend # last.target
    /\ objs[active_backend].backend_type = last.variant
    /\ objs[active_backend].cls # "Null"
    /\ objs[active_backend].initialized

\* C16: after set_active_backend(X), set_active_backend(NONE),
\* set_active_backend(X) for a registered variant X, with every probe and
\* every initialize() of the three calls succeeding, the three calls returned
\* True and the manager is as it was after the first: the registered
\* instance of X is active and initialized, both times, with the same
\* capabilities and the same identity fields of its info.
C16_RoundTrip ==
    (Len(trip.calls) = 3 /\ trip.ok) =>
        /\ trip.calls = <<"True", "True", "True">>
        /\ active_backend = backends[Lookup(trip.variant)].val
        /\ trip.first.ready
        /\ Snapshot(active_backend, objs) = trip.first

\* C16's case: the three calls were made for the OpenAL backend, which was
\* initialized again after its shutdown released the device
C16_Witness ==
    /\ Len(trip.calls) = 3
    /\ trip.ok
    /\ objs[active_backend].cls = "OpenAL"
    /\ InLog(Call("initialize", active_backend, "True"))
    /\ \E o \in 1..Len(objs) : objs[o].cls = "Null" /\ o > active_backend

\* C17: set_active_backend returns True or False whatever the backends do
\* (no exception leaves it); when it returns False the active backend is
\* the one from before the call, not shut down, or a new initialized
\* NullAudioBackend; and whenever it has shut the active backend down, the
\* active backend it leaves is initialized (the original claim; it fails
\* when initialize() of the requested backend or shutdown() of the active
\* one raises, which set_active_backend does not catch).
C17_SwitchNeverRaises ==
    IsSwitch =>
        /\ last.ret \in {"True", "False"}
        /\ last.ret = "False" =>
              \/ FreshFallbackActive
              \/ /\ active_backend = last.prev
                 /\ \A i \in DOMAIN last.log : last.log[i].call # "shutdown"
        /\ (\E i \in DOMAIN last.log : last.log[i].call = "shutdown") =>
              objs[active_backend].initialized

\* The manager is as AudioBackendManager() left it: nothing was called yet
FreshManager == last.op = "construct" /\ last.nobjs = 0

SpatialOnlyKeys ==
    {"pan", "azimuth", "elevation", "relative_angle_degrees",
     "openal_parameters", "windows_spatial_parameters"}

\* C19: initialize() of a NullAudioBackend returns True and leaves it
\* initialized; every entry of its capability map is False; and a result it
\* returns with success = True has the distance and the attenuated volume
\* and none of pan, azimuth, elevation, relative angle, openal_parameters
\* and windows_spatial_parameters.
C19_NullIsBasic ==
    /\ (IsInitialize /\ objs[last.target].cls = "Null") =>
          /\ last.ret = "True"
          /\ objs[last.target].initialized
    /\ \A o \in 1..Len(objs) :
          objs[o].cls = "Null" =>
              \A k \in DOMAIN get_capabilities(objs[o]) :
                  ~get_capabilities(objs[o])[k]
    /\ (/\ IsProcess
        /\ objs[last.target].cls = "Null"
        /\ last.ret = "returned"
        /\ last.result.success) =>
          /\ {"distance", "attenuated_volume_db"} \subseteq
                last.result.processed_audio.keys
          /\ last.result.processed_audio.keys \cap SpatialOnlyKeys = {}
          /\ last.result.processed_audio.block = "none"

\* C19's case: a NullAudioBackend constructed by the caller and initialized
\* has processed a profile with a source position
C19_Witness ==
    /\ IsProcess
    /\ last.target # 1
    /\ objs[last.target].cls = "Null"
    /\ objs[last.target].initialized
    /\ last.input.audio_metadata.position # None
    /\ last.ret = "returned"
    /\ last.result.success

\* The last call was process_spatial_audio on a NullAudioBackend, for a
\* profile with a source position and a volume that is a number
NullProcessedPositioned ==
    /\ IsProcess
    /\ objs[last.target].cls = "Null"
    /\ last.input.audio_metadata.position # None
    /\ last.input.audio_metadata.volume_is_number

\* C20: for a profile with a source position, NullAudioBackend returns
\* success = True, the Euclidean distance from the listener to the source
\* (its square is dx^2 + dy^2 + dz^2) and, in tenths of a decibel,
\* volume_db - distance * spatial_falloff with nothing taken off for
\* occlusion at any distance; for volume -18, falloff 2.5, occlusion 0.7,
\* the source at (10,0,0) and the listener at the origin: 10 and -43.0.
C20_NullAttenuation ==
    NullProcessedPositioned =>
        LET md == last.input.audio_metadata
            lp == last.input.listener_position
            pa == last.result.processed_audio
            dx == md.position.x - lp.x
            dy == md.position.y - lp.y
            dz == md.position.z - lp.z
        IN  /\ last.ret = "returned"
            /\ last.result.success
            /\ pa.distance >= 0
            /\ pa.distance * pa.distance = dx * dx + dy * dy + dz * dz
            /\ pa.attenuated_volume_db =
                  md.volume_db * 10 - pa.distance * md.spatial_falloff
            /\ (/\ md.volume_db = -18
                /\ md.spatial_falloff = 25
                /\ md.occlusion_factor = 7
                /\ md.position = SpatialPosition(10, 0, 0)
                /\ lp = SpatialPosition(0, 0, 0)) =>
                  (pa.distance = 10 /\ pa.attenuated_volume_db = -430)

\* C20's case: the profile of the example, beyond the distance at which the
\* spatial backends take the occlusion penalty off
C20_Witness ==
    /\ NullProcessedPositioned
    /\ last.input.audio_metadata.position = SpatialPosition(10, 0, 0)
    /\ last.input.listener_position = SpatialPosition(0, 0, 0)
    /\ last.result.processed_audio.distance > OcclusionDistance
    /\ last.result.processed_audio.attenuated_volume_db = -430

\* The last call was process_spatial_audio on an OpenAL or Windows Spatial
\* backend and returned a result with success = True
SpatialProcessed ==
    /\ IsProcess
    /\ objs[last.target].cls \in {"OpenAL", "WindowsSpatial"}
    /\ last.ret = "returned"
    /\ last.result.success

\* C21: the attenuated volume an OpenAL or Windows Spatial backend returns
\* is, in tenths of a decibel, volume_db - distance * spatial_falloff, less
\* (1 - occlusion_factor) * K only when the distance is more than 5 (not at
\* 5), with K = 10 for OpenAL and K = 12 for Windows Spatial.
C21_SpatialAttenuation ==
    SpatialProcessed =>
        LET md == last.input.audio_metadata
            pa == last.result.processed_audio
            K == IF objs[last.target].cls = "OpenAL" THEN 10 ELSE 12
        IN  pa.attenuated_volume_db =
                md.volume_db * 10 - pa.distance * md.spatial_falloff
                    - (IF pa.distance > 5
                       THEN (10 - md.occlusion_factor) * K ELSE 0)

\* C21's case: a Windows Spatial backend has processed a source at exactly
\* 5 metres, and nothing was taken off for occlusion
C21_Witness ==
    /\ SpatialProcessed
    /\ objs[last.target].cls = "WindowsSpatial"
    /\ last.result.processed_audio.distance = 5
    /\ last.result.processed_audio.attenuated_volume_db = -305

\* r is the record of a completed _calculate_spatial_parameters call
IsCalculate(r) == r.op = "_calculate_spatial_parameters"

\* Two completed calculations of one class on profiles that agree in volume
\* and falloff
Comparable(r1, r2) ==
    /\ IsCalculate(r1)
    /\ IsCalculate(r2)
    /\ r1.result.cls = r2.result.cls
    /\ r1.input.audio_metadata.volume_db = r2.input.audio_metadata.volume_db
    /\ r1.input.audio_metadata.spatial_falloff
           = r2.input.audio_metadata.spatial_falloff
    /\ r1.input.audio_metadata.spatial_falloff >= 0

\* C22: of two calculations by the same backend class with the same volume,
\* the same falloff >= 0 and the same occlusion factor (between 0.0 and
\* 1.0), the one at the greater distance has no greater attenuated volume,
\* across the 5.0 threshold too; and of two at the same distance > 5.0, the
\* one with the greater occlusion factor has no smaller attenuated volume.
C22_AttenuationMonotone ==
    [][Comparable(last, last') =>
        LET m1 == last.input.audio_metadata
            m2 == last'.input.audio_metadata
            r1 == last.result
            r2 == last'.result
        IN  /\ (m1.occlusion_factor = m2.occlusion_factor
                    /\ r1.distance <= r2.distance)
                => r2.attenuated_volume_db <= r1.attenuated_volume_db
            /\ (r1.distance = r2.distance /\ r1.distance > 5
                    /\ m1.occlusion_factor <= m2.occlusion_factor)
                => r1.attenuated_volume_db <= r2.attenuated_volume_db]_vars

\* A calculation at 5 metres has returned and one at 6 metres on the same
\* profile, without falloff and fully occluded, is about to
C22_Witness ==
    /\ IsCalculate(last)
    /\ frame.pc = "attenuate"
    /\ frame.cls = last.result.cls
    /\ frame.input.audio_metadata.spatial_falloff = 0
    /\ frame.input.audio_metadata.occlusion_factor = 0
    /\ last.input.audio_metadata.spatial_falloff = 0
    /\ last.input.audio_metadata.occlusion_factor = 0
    /\ last.result.distance = 5
    /\ frame.distance = 6

\* The raw relative azimuth of a calculation's input, in exact arithmetic
RawAzimuth(in) ==
    Atan2Degrees(Displacement(in.audio_metadata, in.listener_position).x,
                 Displacement(in.audio_metadata, in.listener_position).z)
        - in.yaw

\* A Windows Spatial calculation has returned its azimuth
AzimuthReported == IsCalculate(last) /\ last.result.cls = "WindowsSpatial"

\* C23: whatever the raw relative azimuth, the normalisation loops of a
\* Windows Spatial calculation come to an end, and the azimuth reported lies
\* in [-180, 180] and differs from the raw value by a multiple of 360:
\* 270 becomes -90, -270 becomes 90, 180 and -180 stay.
C23_AzimuthNormalized ==
    /\ [](AzimuthReported =>
            LET raw == RawAzimuth(last.input)
                azimuth == last.result.angle
            IN  /\ azimuth >= -180
                /\ azimuth <= 180
                /\ (raw - azimuth) % 360 = 0
                /\ raw = 270 => azimuth = -90
                /\ raw = -270 => azimuth = 90
                /\ raw = 180 => azimuth = 180
                /\ raw = -180 => azimuth = -180)
    /\ (frame.pc \in {"while_above", "while_below"}) ~> (frame.pc = "attenuate")

\* The last call generated a backend's parameter block
IsGenerate ==
    last.op \in {"_generate_openal_parameters",
                 "_generate_windows_spatial_parameters"}

\* C24: the conversion always yields a gain within [0, 1]: exactly 1.0 for
\* every db >= 0 (db = 1000 among them) and exactly 0.0 for db = -1000.
C24_GainClamped ==
    IsGenerate =>
        /\ last.ret = "returned"
        /\ last.result.gain.kind \in {"zero", "pow10", "one"}
        /\ last.result.gain.kind = "pow10" => last.result.gain.tenths_db < 0
        /\ last.input.attenuated_volume_db >= 0
               => last.result.gain = [kind |-> "one"]
        /\ last.input.attenuated_volume_db = -10000
               => last.result.gain = [kind |-> "zero"]

\* C25: a calculation by either spatial backend returns distance 0 and
\* direction (0, 0, 0) for a profile without a source position and for a
\* source at the listener's position, dividing by nothing; for any other
\* source the distance is the length of the displacement from the listener
\* to the source and the direction is that displacement divided by it.
C25_DistanceAndDirection ==
    IsCalculate(last) =>
        LET md == last.input.audio_metadata
            lp == last.input.listener_position
            r == last.result
        IN  /\ last.ret = "returned"
            /\ r.direction.den # 0
            /\ (md.position = None \/ md.position = lp)
                   => /\ r.distance = 0
                      /\ r.direction = [num |-> <<0, 0, 0>>, den |-> 1]
            /\ (md.position # None /\ md.position # lp)
                   => LET dx == md.position.x - lp.x
                          dy == md.position.y - lp.y
                          dz == md.position.z - lp.z
                      IN  /\ r.distance > 0
                          /\ r.distance * r.distance
                                 = dx * dx + dy * dy + dz * dz
                          /\ r.direction
                                 = [num |-> <<dx, dy, dz>>, den |-> r.distance]

\* A Windows Spatial calculation for a source at the listener's position,
\* away from the origin, has returned
C25_Witness ==
    /\ IsCalculate(last)
    /\ last.result.cls = "WindowsSpatial"
    /\ last.input.audio_metadata.position = SpatialPosition(1, 2, 0)
    /\ last.input.listener_position = SpatialPosition(1, 2, 0)
    /\ last.result.distance = 0

\* C26: the info of every instance, whatever its library answers, has the
\* identity fields name, type, version and description, and has live
\* diagnostics only while the instance is ready: never on an instance that
\* is not initialized, and never on one whose shutdown() has just returned.
C26_DiagnosticsOnlyWhileReady ==
    \A o \in 1..Len(objs) :
        \A q \in InfoOutcomes(objs[o]) :
            LET info == get_backend_info(objs[o], q)
            IN  /\ {"name", "type", "version", "description"}
                       \subseteq DOMAIN info
                /\ info.diagnostics # {} => objs[o].initialized
                /\ (last.op = "shutdown" /\ last.target = o)
                       => info.diagnostics = {}

\* The last call was set_active_backend(t) for a variant t other than NONE
\* that is registered and whose probe passed
AvailableSwitch ==
    /\ IsSwitch
    /\ last.variant # "none"
    /\ last.variant \in Registered
    /\ InLog(Call("is_available", backends[Lookup(last.variant)].val, "True"))

\* C27: in such a call shutdown() is called exactly once, on the backend
\* that was active, and has returned before initialize() is first invoked on
\* the requested backend; and the requested backend has become the active
\* one only if its initialize(), after that shutdown, returned True.
C27_ShutdownBeforeInitialize ==
    AvailableSwitch =>
        LET o == backends[Lookup(last.variant)].val
            lg == last.log
            shutdowns == {i \in DOMAIN lg : lg[i].call = "shutdown"}
        IN  /\ Cardinality(shutdowns) = 1
            /\ \A i \in shutdowns :
                  /\ lg[i] = Call("shutdown", last.prev, "returned")
                  /\ \A j \in DOMAIN lg :
                        (lg[j].call = "initialize" /\ lg[j].obj = o) => i < j
            /\ (active_backend = o /\ last.prev # o)
                   => \E i \in shutdowns :
                         \E j \in DOMAIN lg :
                            /\ i < j
                            /\ lg[j] = Call("initialize", o, "True")

\* A step that is a call of list_available_backends
ListStep == last'.op = "list_available_backends"

\* C28: a call of list_available_backends leaves the active reference, the
\* table and every backend instance (its flag and what it holds) as they
\* were, whatever the classes of the registered backends.
C28_ListIsReadOnly ==
    [][ListStep =>
        /\ active_backend' = active_backend
        /\ backends' = backends
        /\ objs' = objs]_vars

\* C29: between the operations of the manager the active backend is the
\* instance the table holds under its variant, or a NullAudioBackend that
\* the manager created as the fallback (the manager activates no other
\* NullAudioBackend); never an instance that a later register_backend of
\* its variant has replaced in the table.
C29_ActiveIsRegisteredOrFallback ==
    \/ objs[active_backend].cls = "Null"
    \/ \E i \in DOMAIN backends :
          backends[i] = [key |-> objs[active_backend].backend_type,
                         val |-> active_backend]

\* The instance holds none of the resources of its library
HoldsNothing(b) ==
    /\ b.al_device = "None"
    /\ b.al_context = "None"
    /\ b.spatial_renderer = "None"

\* C30: between the operations of the manager every backend instance other
\* than the active one (registered, formerly active, or a discarded
\* fallback) is not initialized and holds no device, context or renderer.
C30_OnlyActiveReady ==
    \A o \in 1..Len(objs) :
        o # active_backend =>
            /\ ~objs[o].initialized
            /\ HoldsNothing(objs[o])

====
